---- MODULE Spec2Model ----
(***************************************************************************)
(* State-machine model of run_SIR_simulation (src/sirmodeltsk.py): a       *)
(* discrete-time SIR process with latency tau, infectious duration sigma   *)
(* and neighbour threshold k on an undirected contact graph.               *)
(*                                                                         *)
(* The graph comes from networkx.random_geometric_graph; the model draws   *)
(* it from all simple undirected graphs on n nodes.  The random seed set   *)
(* (random.sample) is a nondeterministic choice.  The float argument       *)
(* initial_infected_fraction is the rational frac_num / FracDen.           *)
(* Python's None is the integer None == -1, which no timestamp can be.     *)
(* history is 1-based here: history[s + 1] is Python's history[s].         *)
(*                                                                         *)
(* states, new_states and the entries of history are references to dict    *)
(* objects.  states_id, new_states_id and history_ids hold the identity of *)
(* the object each one refers to, and a write through new_states reaches   *)
(* every reference to the same object.                                     *)
(***************************************************************************)
EXTENDS Integers, Sequences, FiniteSets

\* ---- bounds of the model ----
MaxN == 3
MaxTau == 1
MaxSigma == 2
MaxK == 2
MaxSteps == 4
FracDen == 3

None == -1

VARIABLES n, edges, tau, sigma, k, frac_num, max_steps, initial_infected,
          states, infection_time, new_states, history, t, pc, visited,
          states_id, new_states_id, history_ids, next_id

vars == <<n, edges, tau, sigma, k, frac_num, max_steps, initial_infected,
          states, infection_time, new_states, history, t, pc, visited,
          states_id, new_states_id, history_ids, next_id>>

ids == <<states_id, new_states_id, history_ids, next_id>>

params == <<n, edges, tau, sigma, k, frac_num, max_steps>>

\* ---- helpers ----
Max(a, b) == IF a >= b THEN a ELSE b

Last(s) == s[Len(s)]

\* G.nodes(): random_geometric_graph labels the nodes 0 .. n-1
Nodes == 0 .. (n - 1)

\* every simple undirected graph on the nodes 0 .. m-1 (no self-loops)
Graphs(m) == SUBSET {e \in SUBSET (0 .. (m - 1)) : Cardinality(e) = 2}

\* G.neighbors(node)
neighbors(node) == {nb \in Nodes : {node, nb} \in edges}

\* ---- the per-node rules of one step (lines 47-61) ----

\* faulty variant: the neighbour's state is read from the buffer being written
is_infectious_new_buffer(neighbor) ==
    /\ new_states[neighbor] = "I"
    /\ infection_time[neighbor] # None
    /\ tau <= t - infection_time[neighbor]
    /\ t - infection_time[neighbor] < tau + sigma

\* faulty variant: the latency tau is dropped from the lower end of the window
is_infectious_no_latency(neighbor) ==
    /\ states[neighbor] = "I"
    /\ infection_time[neighbor] # None
    /\ 0 <= t - infection_time[neighbor]
    /\ t - infection_time[neighbor] < tau + sigma

\* lines 51-54: the neighbour adds one to infectious_neighbors
is_infectious(neighbor) ==
    /\ states[neighbor] = "I"
    /\ infection_time[neighbor] # None
    /\ tau <= t - infection_time[neighbor]
    /\ t - infection_time[neighbor] < tau + sigma

\* lines 49-55: the counter after the loop over G.neighbors(node)
infectious_neighbors(node) ==
    Cardinality({nb \in neighbors(node) : is_infectious(nb)})

\* faulty variant: one infectious neighbour is enough whatever k is
becomes_infected_any(node) == infectious_neighbors(node) >= 1

\* faulty variant: the threshold is strict
becomes_infected_strict(node) == infectious_neighbors(node) > k

\* line 56
becomes_infected(node) == infectious_neighbors(node) >= k

\* faulty variant: recovery one step early
recovers_early(node) ==
    /\ infection_time[node] # None
    /\ (t - infection_time[node]) >= (tau + sigma) - 1

\* faulty variant: recovery one step late
recovers_late(node) ==
    /\ infection_time[node] # None
    /\ (t - infection_time[node]) > (tau + sigma)

\* line 60
recovers(node) ==
    /\ infection_time[node] # None
    /\ (t - infection_time[node]) >= (tau + sigma)

\* faulty variant: a susceptible node over the threshold is removed at once
next_state_skip(node) ==
    IF states[node] = "S"
    THEN (IF becomes_infected(node) THEN "R" ELSE new_states[node])
    ELSE IF states[node] = "I"
         THEN (IF recovers(node) THEN "R" ELSE new_states[node])
         ELSE new_states[node]

\* lines 47-61: the value of new_states[node] after the node is visited
next_state(node) ==
    IF states[node] = "S"
    THEN (IF becomes_infected(node) THEN "I" ELSE new_states[node])
    ELSE IF states[node] = "I"
         THEN (IF recovers(node) THEN "R" ELSE new_states[node])
         ELSE new_states[node]

\* faulty variant: an Infected node is stamped again at every visit
next_time_restamp(node) ==
    IF (states[node] = "S" /\ becomes_infected(node)) \/ states[node] = "I"
    THEN t
    ELSE infection_time[node]

\* line 58: the value of infection_time[node] after the node is visited
next_time(node) ==
    IF states[node] = "S" /\ becomes_infected(node)
    THEN t
    ELSE infection_time[node]

\* faulty variant: the floor of n * fraction without the minimum of one
num_initial_infected_no_min == (n * frac_num) \div FracDen

\* line 35: max(1, int(total_nodes * initial_infected_fraction))
num_initial_infected == Max(1, (n * frac_num) \div FracDen)

\* faulty variant: one iteration too many
range_has_next_off_by_one == t <= max_steps

\* line 44: range(max_steps) yields t
range_has_next == t < max_steps

\* faulty variant: no copy is made, the result is the object itself
dict_copy_alias(obj) == obj

\* lines 45, 63: dict.copy() returns a new object, which no other reference
\* reaches
dict_copy(obj) == next_id

\* lines 57, 61: what a reference to the object obj with contents value
\* shows after new_states[node] = v
written(obj, value, node, v) ==
    IF obj = new_states_id THEN [value EXCEPT ![node] = v] ELSE value

\* line 66
no_node_infected(snapshot) == \A node \in Nodes : snapshot[node] # "I"

\* ---- the state after lines 26-31, for valid arguments ----
Init ==
    /\ n \in 1 .. MaxN
    /\ edges \in Graphs(n)
    /\ tau \in 0 .. MaxTau
    /\ sigma \in 1 .. MaxSigma
    /\ k \in 1 .. MaxK
    /\ frac_num \in 1 .. FracDen
    /\ max_steps \in 1 .. MaxSteps
    /\ initial_infected = {}
    /\ states = [node \in Nodes |-> "S"]
    /\ infection_time = [node \in Nodes |-> None]
    /\ new_states = [node \in Nodes |-> "S"]
    /\ history = << >>
    /\ t = 0
    /\ visited = {}
    /\ pc = "seed"
    /\ states_id = 0
    /\ new_states_id = None
    /\ history_ids = << >>
    /\ next_id = 1

\* faulty variant: the seeded state is recorded as the first snapshot
Seed_records_seeded_state ==
    /\ pc = "seed"
    /\ initial_infected' \in
          {sample \in SUBSET Nodes : Cardinality(sample) = num_initial_infected}
    /\ states' = [node \in Nodes |->
                    IF node \in initial_infected' THEN "I" ELSE states[node]]
    /\ infection_time' = [node \in Nodes |->
                    IF node \in initial_infected' THEN 0
                    ELSE infection_time[node]]
    /\ history' = << states' >>
    /\ history_ids' = << next_id >>
    /\ next_id' = next_id + 1
    /\ pc' = "loop"
    /\ UNCHANGED <<params, new_states, t, visited, states_id, new_states_id>>

\* lines 34-41: random.sample draws num_initial_infected distinct nodes and
\* the loop seeds them
Seed ==
    /\ pc = "seed"
    /\ initial_infected' \in
          {sample \in SUBSET Nodes : Cardinality(sample) = num_initial_infected}
    /\ states' = [node \in Nodes |->
                    IF node \in initial_infected' THEN "I" ELSE states[node]]
    /\ infection_time' = [node \in Nodes |->
                    IF node \in initial_infected' THEN 0
                    ELSE infection_time[node]]
    /\ history' = << >>
    /\ pc' = "loop"
    /\ UNCHANGED <<params, new_states, t, visited, ids>>

\* lines 44-45: the loop yields t and new_states is a copy of states
StartStep ==
    /\ pc = "loop"
    /\ range_has_next
    /\ new_states' = states
    /\ new_states_id' = dict_copy(states_id)
    /\ next_id' = next_id + 1
    /\ visited' = {}
    /\ pc' = "nodes"
    /\ UNCHANGED <<params, initial_infected, states, infection_time, history, t,
                   states_id, history_ids>>

\* line 44 -> 69: range(max_steps) is exhausted
ExitLoop ==
    /\ pc = "loop"
    /\ ~range_has_next
    /\ pc' = "done"
    /\ UNCHANGED <<params, initial_infected, states, infection_time, new_states,
                   history, t, visited, ids>>

\* lines 46-61: the body of `for node in G.nodes()` for one node.  G.nodes()
\* yields the nodes in the order 0 .. n-1, each once; visited holds the
\* nodes the loop has passed in this step.
VisitNode(node) ==
    /\ pc = "nodes"
    /\ node \notin visited
    /\ \A other \in Nodes \ visited : node <= other
    /\ new_states' = [new_states EXCEPT ![node] = next_state(node)]
    /\ states' = written(states_id, states, node, next_state(node))
    /\ history' = [i \in 1 .. Len(history) |->
                     written(history_ids[i], history[i], node, next_state(node))]
    /\ infection_time' = [infection_time EXCEPT ![node] = next_time(node)]
    /\ visited' = visited \cup {node}
    /\ UNCHANGED <<params, initial_infected, t, pc, ids>>

\* faulty variant: the early stop is missing
EndStep_no_break ==
    /\ pc = "nodes"
    /\ visited = Nodes
    /\ states' = new_states
    /\ states_id' = new_states_id
    /\ history' = Append(history, new_states)
    /\ history_ids' = Append(history_ids, dict_copy(new_states_id))
    /\ next_id' = next_id + 1
    /\ t' = t + 1
    /\ pc' = "loop"
    /\ UNCHANGED <<params, initial_infected, infection_time, new_states, visited,
                   new_states_id>>

\* lines 62-67: states becomes the object of new_states, a copy of it is
\* appended, and the loop stops early when no node is infected
EndStep ==
    /\ pc = "nodes"
    /\ visited = Nodes
    /\ states' = new_states
    /\ states_id' = new_states_id
    /\ history' = Append(history, new_states)
    /\ history_ids' = Append(history_ids, dict_copy(new_states_id))
    /\ next_id' = next_id + 1
    /\ IF no_node_infected(new_states)
       THEN /\ pc' = "done"
            /\ t' = t
       ELSE /\ pc' = "loop"
            /\ t' = t + 1
    /\ UNCHANGED <<params, initial_infected, infection_time, new_states, visited,
                   new_states_id>>

Next ==
    \/ Seed
    \/ StartStep
    \/ ExitLoop
    \/ \E node \in Nodes : VisitNode(node)
    \/ EndStep

Spec == Init /\ [][Next]_vars

\* the function runs to its return: nothing suspends the single thread
FairSpec == Spec /\ WF_vars(Next)

\* the state after lines 26-31 for any integer arguments: the function has
\* no check of tau, sigma or k before line 26, so a negative tau, a sigma
\* of 0 and a k of 0 enter the run like any other value
AnyArgsInit ==
    /\ n \in 1 .. MaxN
    /\ edges \in Graphs(n)
    /\ tau \in -1 .. MaxTau
    /\ sigma \in 0 .. MaxSigma
    /\ k \in 0 .. MaxK
    /\ frac_num \in 1 .. FracDen
    /\ max_steps \in 1 .. MaxSteps
    /\ initial_infected = {}
    /\ states = [node \in Nodes |-> "S"]
    /\ infection_time = [node \in Nodes |-> None]
    /\ new_states = [node \in Nodes |-> "S"]
    /\ history = << >>
    /\ t = 0
    /\ visited = {}
    /\ pc = "seed"
    /\ states_id = 0
    /\ new_states_id = None
    /\ history_ids = << >>
    /\ next_id = 1

AnyArgsSpec == AnyArgsInit /\ [][Next]_vars

\* the state after lines 26-31 for valid arguments with max_steps at and
\* just above n * (tau + sigma)
LongRunInit ==
    /\ n \in 1 .. MaxN
    /\ edges \in Graphs(n)
    /\ tau \in 0 .. MaxTau
    /\ sigma \in 1 .. MaxSigma
    /\ k \in 1 .. MaxK
    /\ frac_num \in 1 .. FracDen
    /\ max_steps \in (n * (tau + sigma)) .. (n * (tau + sigma) + 2)
    /\ initial_infected = {}
    /\ states = [node \in Nodes |-> "S"]
    /\ infection_time = [node \in Nodes |-> None]
    /\ new_states = [node \in Nodes |-> "S"]
    /\ history = << >>
    /\ t = 0
    /\ visited = {}
    /\ pc = "seed"
    /\ states_id = 0
    /\ new_states_id = None
    /\ history_ids = << >>
    /\ next_id = 1

LongRunSpec == LongRunInit /\ [][Next]_vars

\* ==== claims ====

\* python's history[s], the snapshot of step s
Snap(s) == history[s + 1]

\* the step's last node has been visited and the snapshot is being appended
StepEnds == pc = "nodes" /\ pc' # "nodes"

\* the neighbours of node that are Infected before step t and inside their
\* window at t, stated from the claim and not from the step's own counter
WindowCount(node) ==
    Cardinality({m \in Nodes :
        /\ {node, m} \in edges
        /\ states[m] = "I"
        /\ tau <= t - infection_time[m]
        /\ t - infection_time[m] < tau + sigma})

\* C1: a node that is Susceptible before step t is Infected in the snapshot
\* of step t, with infection timestamp t, if and only if at least k of its
\* neighbours are infectious at t; each visit of a Susceptible node decides
\* by the same count, so exactly k suffices and k - 1 does not.
C1_Threshold ==
    [][/\ \A node \in visited' \ visited :
             states[node] = "S" =>
                ((new_states'[node] = "I" /\ infection_time'[node] = t)
                    <=> WindowCount(node) >= k)
       /\ StepEnds =>
            /\ Len(history') = t + 1
            /\ \A node \in Nodes :
                 states[node] = "S" =>
                    ((Last(history')[node] = "I" /\ infection_time'[node] = t)
                        <=> WindowCount(node) >= k)]_vars

\* C1 witness: with k = 2 a Susceptible node with exactly two infectious
\* neighbours has been visited and is Infected with timestamp t
C1_Witness ==
    /\ pc = "nodes"
    /\ k = 2
    /\ \E node \in visited :
         /\ states[node] = "S"
         /\ new_states[node] = "I"
         /\ infection_time[node] = t
         /\ WindowCount(node) = k

\* the moves a node's state may make from one snapshot to the next
AllowedMoves ==
    {<<"S", "S">>, <<"I", "I">>, <<"R", "R">>, <<"S", "I">>, <<"I", "R">>}

\* C2: between consecutive snapshots of the history a node's state is
\* unchanged or moves S->I or I->R, never backward and never from S to R,
\* and a node Recovered in one snapshot is Recovered in every later one.
C2_Monotone ==
    \A node \in Nodes :
        /\ \A i \in 1 .. (Len(history) - 1) :
             <<history[i][node], history[i + 1][node]>> \in AllowedMoves
        /\ \A i \in 1 .. Len(history) : \A j \in i .. Len(history) :
             history[i][node] = "R" => history[j][node] = "R"

\* C2 witness: the history shows one node as S, later as I and later as R
C2_Witness ==
    \E node \in Nodes : \E i, j, l \in 1 .. Len(history) :
        /\ i < j /\ j < l
        /\ history[i][node] = "S"
        /\ history[j][node] = "I"
        /\ history[l][node] = "R"

\* the window of the claim: timestamp ti is set and tau <= t - ti < tau + sigma
InWindow(m) ==
    /\ infection_time[m] # None
    /\ tau <= t - infection_time[m]
    /\ t - infection_time[m] < tau + sigma

\* C3: every node with an infection timestamp ti, seeded or infected during
\* the run, is counted as an infectious neighbour at exactly the steps t
\* with tau <= t - ti < tau + sigma (stated when every node of step t has
\* been visited, so that the timestamps of step t are set).
C3_CountedInWindow ==
    (pc = "nodes" /\ visited = Nodes) =>
        \A m \in Nodes :
            infection_time[m] # None => (is_infectious(m) <=> InWindow(m))

\* C4: a node Infected before step t is Recovered after its visit in step t
\* if and only if t - ti >= tau + sigma; so a node infected at ti is shown
\* Infected in the snapshots ti .. ti + tau + sigma - 1 that the run
\* reaches and Recovered in every snapshot from ti + tau + sigma on.
C4_Recovery ==
    \A node \in Nodes :
        /\ (pc = "nodes" /\ node \in visited /\ states[node] = "I") =>
              (new_states[node] = "R"
                  <=> t - infection_time[node] >= tau + sigma)
        /\ infection_time[node] # None =>
              \A s \in 0 .. (Len(history) - 1) :
                  /\ Snap(s)[node] = "I" <=>
                        (infection_time[node] <= s
                            /\ s < infection_time[node] + tau + sigma)
                  /\ Snap(s)[node] = "R" <=>
                        s >= infection_time[node] + tau + sigma

\* C4 witness: a node infected during the run (ti >= 1) is Infected in the
\* snapshot before ti + tau + sigma and Recovered in snapshot ti + tau + sigma
C4_Witness ==
    \E node \in Nodes :
        /\ infection_time[node] >= 1
        /\ Len(history) > infection_time[node] + tau + sigma
        /\ Snap(infection_time[node] + tau + sigma - 1)[node] = "I"
        /\ Snap(infection_time[node] + tau + sigma)[node] = "R"

\* what step t makes of node m, read from the state as it is now
Outcome(m) == <<next_state(m), next_time(m)>>

\* C5: within a step, visiting a node changes no node's outcome of the step
\* (neither a visited nor an unvisited one), each visit writes the outcome
\* the node had before the visit, and the appended snapshot is the outcome
\* of every node; so the snapshot of step t is the outcome computed from
\* the state at the end of step t-1.  The graphs and seed sets range over
\* every labelling, so the visits 0, 1, .. meet the nodes of a graph in
\* every order.
C5_Simultaneous ==
    [][pc = "nodes" =>
         /\ pc' = "nodes" => \A m \in Nodes : Outcome(m)' = Outcome(m)
         /\ \A m \in visited' \ visited :
               /\ new_states'[m] = Outcome(m)[1]
               /\ infection_time'[m] = Outcome(m)[2]
         /\ pc' # "nodes" =>
               /\ Last(history') = [m \in Nodes |-> Outcome(m)[1]]
               /\ infection_time' = [m \in Nodes |-> Outcome(m)[2]]]_vars

\* C5 witness: in a step with tau = 0 a node was infected by its visit
\* while a Susceptible neighbour of it is still to be visited
C5_Witness ==
    /\ pc = "nodes"
    /\ tau = 0
    /\ \E m \in visited : \E node \in Nodes \ visited :
         /\ {m, node} \in edges
         /\ states[m] = "S"
         /\ new_states[m] = "I"
         /\ states[node] = "S"

\* C6: only the last snapshot of the history can be free of Infected nodes,
\* and once such a snapshot is appended no further step is computed; the
\* returned history is shorter than max_steps only if its last snapshot is
\* free of Infected nodes, and has length max_steps otherwise.
C6_EarlyStop ==
    /\ \A i \in 1 .. (Len(history) - 1) : ~no_node_infected(history[i])
    /\ (Len(history) > 0 /\ no_node_infected(Last(history))) => pc = "done"
    /\ pc = "done" =>
          /\ Len(history) <= max_steps
          /\ Len(history) < max_steps => no_node_infected(Last(history))

\* C6 witness: the run has stopped early on a snapshot without Infected
\* nodes, after at least one snapshot with an Infected node
C6_Witness ==
    /\ pc = "done"
    /\ Len(history) >= 2
    /\ Len(history) < max_steps
    /\ no_node_infected(Last(history))

\* C7: for every graph with at least one node and valid arguments the run
\* terminates, and the returned history has between 1 and max_steps
\* entries, each mapping every node to one of S, I, R.
C7_Terminates ==
    /\ <>(pc = "done")
    /\ [](pc = "done" =>
            /\ Len(history) >= 1
            /\ Len(history) <= max_steps
            /\ \A i \in 1 .. Len(history) :
                  history[i] \in [Nodes -> {"S", "I", "R"}])

\* C7 witness: the run has returned a history of max_steps > 1 entries whose
\* last snapshot still has an Infected node
C7_Witness ==
    /\ pc = "done"
    /\ max_steps > 1
    /\ Len(history) = max_steps
    /\ ~no_node_infected(Last(history))

\* the seeding is done and the first step has not begun
Seeded == pc = "loop" /\ t = 0 /\ history = << >>

\* the nodes seeded: Infected with infection timestamp 0
SeededNodes ==
    {node \in Nodes : states[node] = "I" /\ infection_time[node] = 0}

\* every node outside the seed set is Susceptible with no timestamp
OthersSusceptible ==
    \A node \in Nodes \ SeededNodes :
        states[node] = "S" /\ infection_time[node] = None

\* the ceiling of n * frac_num / FracDen
CeilSeeds == (n * frac_num + FracDen - 1) \div FracDen

\* the floor of n * frac_num / FracDen
FloorSeeds == (n * frac_num) \div FracDen

\* C8 as stated: before the first step exactly ceil(n * fraction) distinct
\* nodes are Infected with timestamp 0 and every other node is Susceptible
\* with no timestamp.
C8_SeedCeil ==
    Seeded =>
        /\ SeededNodes = initial_infected
        /\ Cardinality(SeededNodes) = CeilSeeds
        /\ OthersSusceptible

\* C8 amended: before the first step exactly max(1, floor(n * fraction))
\* distinct nodes are Infected with timestamp 0 and every other node is
\* Susceptible with no timestamp.
C8_SeedFloor ==
    Seeded =>
        /\ SeededNodes = initial_infected
        /\ Cardinality(SeededNodes) = Max(1, FloorSeeds)
        /\ Cardinality(SeededNodes) >= 1
        /\ OthersSusceptible

\* C8 witness: seeding is done where n * fraction is not whole, so that the
\* floor and the ceiling differ, and a Susceptible node is left
C8_Witness ==
    /\ Seeded
    /\ FloorSeeds >= 1
    /\ CeilSeeds > FloorSeeds
    /\ Cardinality(SeededNodes) = FloorSeeds
    /\ \E node \in Nodes : states[node] = "S"

\* the run of the claim: the path 0 - 1 - 2 with tau = 0, sigma = 1, k = 1
\* and node 0 the only seed
PathRun ==
    /\ n = 3
    /\ edges = {{0, 1}, {1, 2}}
    /\ tau = 0 /\ sigma = 1 /\ k = 1
    /\ max_steps >= 3
    /\ pc # "seed"
    /\ initial_infected = {0}

\* C9: on the path A - B - C (nodes 0, 1, 2) with tau = 0, sigma = 1, k = 1
\* and only A seeded, the snapshot of step 1 shows B Infected and C
\* Susceptible, the snapshot of step 2 shows A Recovered and B still
\* Infected, and the run reaches step 2.
C9_PathScenario ==
    PathRun =>
        /\ Len(history) >= 2 =>
              (Snap(1)[1] = "I" /\ Snap(1)[2] = "S")
        /\ Len(history) >= 3 =>
              (Snap(2)[0] = "R" /\ Snap(2)[1] = "I")
        /\ pc = "done" => Len(history) >= 3

\* a neighbour that is Infected and still latent at step t
Latent(m) ==
    /\ states[m] = "I"
    /\ infection_time[m] <= t
    /\ t < infection_time[m] + tau

\* C10: at step t a node whose timestamp t0 has t0 <= t < t0 + tau is not
\* counted as an infectious neighbour, and a Susceptible node all of whose
\* Infected neighbours are latent at step t is still Susceptible after its
\* visit in step t.
C10_Latency ==
    pc = "nodes" =>
        /\ \A m \in Nodes :
              (infection_time[m] # None /\ infection_time[m] <= t
                  /\ t < infection_time[m] + tau) => ~is_infectious(m)
        /\ \A node \in visited :
              (/\ states[node] = "S"
               /\ \A m \in neighbors(node) : states[m] = "I" => Latent(m))
                  => (new_states[node] = "S" /\ infection_time[node] = None)

\* C10 witness: a Susceptible node with at least k Infected neighbours, all
\* of them latent, has been visited and is still Susceptible
C10_Witness ==
    /\ pc = "nodes"
    /\ \E node \in visited :
         /\ states[node] = "S"
         /\ Cardinality({m \in neighbors(node) : Latent(m)}) >= k
         /\ \A m \in neighbors(node) : states[m] = "I" => Latent(m)
         /\ new_states[node] = "S"

\* the neighbours of node that have been infected so far, seeds included
EverInfectedNeighbours(node) ==
    {m \in Nodes : {node, m} \in edges /\ infection_time[m] # None}

EntriesIndependent ==
    /\ \A i \in 1 .. Len(history_ids) :
          history_ids[i] \notin {states_id, new_states_id}
    /\ \A i, j \in 1 .. Len(history_ids) :
          i # j => history_ids[i] # history_ids[j]

\* C12: every snapshot in the history is an object of its own, and no step
\* of the run changes a snapshot that is already in the history; a snapshot
\* is appended only when every node of its step has been visited, and step
\* t is computed only when the history holds the snapshots of steps 0..t-1.
C12_SnapshotsIndependent ==
    [][/\ Len(history') >= Len(history)
       /\ \A i \in 1 .. Len(history) : history'[i] = history[i]
       /\ EntriesIndependent'
       /\ Len(history') > Len(history) =>
             /\ visited = Nodes
             /\ Len(history') = Len(history) + 1
             /\ Last(history') = new_states
       /\ pc' = "nodes" => Len(history') = t']_vars

\* C12 witness: a later step has changed a node's state in new_states while
\* the snapshot of the step before still shows the node's earlier state
C12_Witness ==
    /\ pc = "nodes"
    /\ Len(history) >= 1
    /\ \E node \in visited :
         /\ new_states[node] # states[node]
         /\ Last(history)[node] = states[node]

\* C13: a call with tau < 0, sigma < 1 or k < 1 is rejected before any
\* simulation work: no node is seeded, no step is computed and no history
\* is returned.
C13_InvalidRejected ==
    (tau < 0 \/ sigma < 1 \/ k < 1) =>
        /\ initial_infected = {}
        /\ \A node \in Nodes :
              states[node] = "S" /\ infection_time[node] = None
        /\ history = << >>
        /\ pc \notin {"nodes", "done"}

\* the seeded neighbours of node
SeededNeighbours(node) == {m \in initial_infected : {node, m} \in edges}

\* C15: the history has one snapshot per transition computed, and none for
\* the seeded state: while step t is due or under way the history has t
\* entries and after a step its last entry is the current state, so
\* history[i] is the state after i + 1 transitions; with tau = 0 a node
\* that was not seeded is Infected with timestamp 0 in history[0] if and
\* only if at least k of its neighbours were seeded.
C15_FirstSnapshot ==
    /\ pc \in {"seed", "loop", "nodes"} => Len(history) = t
    /\ (pc \in {"loop", "done"} /\ Len(history) >= 1) => Last(history) = states
    /\ (Len(history) >= 1 /\ tau = 0) =>
          \A node \in Nodes \ initial_infected :
              /\ Snap(0)[node] \in {"S", "I"}
              /\ Snap(0)[node] = "I" <=>
                    Cardinality(SeededNeighbours(node)) >= k
              /\ Snap(0)[node] = "I" => infection_time[node] = 0

\* C15 witness: with tau = 0 the first snapshot shows a node Infected that
\* was not seeded and has exactly k seeded neighbours
C15_Witness ==
    /\ Len(history) >= 1
    /\ tau = 0
    /\ \E node \in Nodes \ initial_infected :
         /\ Cardinality(SeededNeighbours(node)) = k
         /\ Snap(0)[node] = "I"
         /\ infection_time[node] = 0

\* C16: when max_steps > n * (tau + sigma) the run stops early, in an
\* iteration of the loop, on a snapshot without Infected nodes, and the
\* history never has more than n * (tau + sigma) + 1 entries.
C16_DiesOut ==
    /\ Len(history) <= n * (tau + sigma) + 1
    /\ (pc = "done" /\ max_steps > n * (tau + sigma)) =>
          /\ Len(history) >= 1
          /\ no_node_infected(Last(history))
          /\ \A node \in Nodes : Last(history)[node] \in {"S", "R"}
          /\ t < max_steps

\* C16 witness: a run with max_steps > n * (tau + sigma) on two or more
\* nodes has stopped early after a node infected during the run Recovered
C16_Witness ==
    /\ pc = "done"
    /\ n >= 2
    /\ max_steps > n * (tau + sigma)
    /\ no_node_infected(Last(history))
    /\ \E node \in Nodes : infection_time[node] >= 1 /\ states[node] = "R"

\* the timestamps agree with the states after a step (or after seeding)
TimestampsConsistent ==
    \A node \in Nodes :
        /\ states[node] = "S" <=> infection_time[node] = None
        /\ states[node] # "S" =>
              /\ 0 <= infection_time[node]
              /\ infection_time[node] <= Max(0, Len(history) - 1)

\* C17: after seeding and after every step a node is Susceptible if and
\* only if its infection timestamp is None, the timestamp of any other node
\* lies between 0 and the step just computed, and no step changes a
\* timestamp that is set.
C17_Timestamps ==
    [][/\ pc' \in {"loop", "done"} => TimestampsConsistent'
       /\ \A node \in Nodes :
             infection_time[node] # None =>
                infection_time'[node] = infection_time[node]]_vars

\* C17 witness: after a step there are a Recovered seed, a node infected
\* during the run at its own step, and a node still Susceptible
C17_Witness ==
    /\ pc \in {"loop", "done"}
    /\ \E a, b, c \in Nodes :
         /\ states[a] = "R" /\ infection_time[a] = 0
         /\ states[b] # "S" /\ infection_time[b] >= 1
         /\ states[c] = "S" /\ infection_time[c] = None

Min(a, b) == IF a <= b THEN a ELSE b

\* C18: for valid arguments every seeded node is Infected in history[0], so
\* the first snapshot never triggers the early stop and the returned
\* history has at least min(2, max_steps) entries.
C18_SeedsSurviveFirstStep ==
    /\ Len(history) >= 1 =>
          /\ \A node \in initial_infected : Snap(0)[node] = "I"
          /\ ~no_node_infected(Snap(0))
    /\ pc = "done" => Len(history) >= Min(2, max_steps)

\* C18 witness: the run has stopped early on its second snapshot, with
\* max_steps > 2
C18_Witness ==
    /\ pc = "done"
    /\ max_steps > 2
    /\ Len(history) = 2
    /\ \A node \in initial_infected : Snap(0)[node] = "I" /\ Snap(1)[node] = "R"

====
